---- MODULE Spec2Model ----
(***************************************************************************)
(* Session issuance / verification, the authoritative gate and the        *)
(* profile-linkage services of the job-matching web application.          *)
(*                                                                         *)
(* Time is the wall clock in milliseconds.  The two program durations     *)
(* (1000 ms per second, 7 days) are scaled down so that a token's whole   *)
(* life fits the explored horizon; the scaling keeps the relation         *)
(* 7 days in ms = 7 days in s * ms per s that the code relies on.         *)
(***************************************************************************)
EXTENDS Integers, Sequences, FiniteSets, TLC

\* ------------------------------------------------------------- bounds
MaxTime == 6          \* last clock value explored (ms ticks)
MsPerSec == 2         \* ms ticks per second (1000 in the program, scaled)
SevenDaysSec == 2     \* '7d' in seconds (604800 in the program, scaled)
MaxUsers == 2         \* user ids are 1..MaxUsers
MaxSignDelay == 1     \* ms that may pass between two clock reads of one call

SevenDaysMs == SevenDaysSec * MsPerSec

VARIABLES
    secret,     \* process.env.SESSION_SECRET ("" when unset)
    now,        \* wall clock, ms
    cookie,     \* the client's 'session' cookie
    issued,     \* the payload and token of the last encrypt call
    ret,        \* outcome of the last completed call, as its caller sees it
    users,      \* the User collection, by id
    nextUser,   \* the next id the storage gives a new user
    seekerProfiles,     \* the SeekerProfile collection, by id
    companyProfiles,    \* the CompanyProfile collection, by id
    nextProfile,        \* the next id the storage gives a new profile
    calls,      \* the profile server actions in flight, by request
    render      \* the per-request memo of the data access layer, with its counts

codecVars == <<secret, now, cookie, issued, ret>>
storeVars == <<users, nextUser, seekerProfiles, companyProfiles, nextProfile>>
vars == <<secret, now, cookie, issued, ret, users, nextUser, seekerProfiles,
          companyProfiles, nextProfile, calls, render>>

\* ------------------------------------------------------------- values
Unset == ""
SecretValues == {Unset, "k1"}

UserTypes == {"SEEKER", "COMPANY"}
\* TypeScript's UserType is erased at run time: a payload may carry any string,
\* or no userType at all ("undefined").
RoleValues == UserTypes \cup {"ADMIN", "undefined"}

UserIds == 1..MaxUsers
\* 0 stands for the empty string, the one falsy userId.
UserIdValues == 0..MaxUsers

NoCookie == [t |-> "absent"]
EmptyString == [t |-> "empty"]
Malformed == [t |-> "malformed"]

Undefined == [kind |-> "undefined"]
Thrown(e) == [kind |-> "throw", err |-> e]
Redirect(to) == [kind |-> "redirect", to |-> to]
NoCall == [fn |-> "none"]
NoIssue == [t |-> "none"]
NoRender == [t |-> "none"]
\* process.env.NODE_ENV
NodeEnvs == {"production", "development"}
\* No cookieStore.set call was made.
NoSet == [kind |-> "none"]

\* ------------------------------------------------------------- dates
\* Date.prototype.toISOString: "...:ss.sssZ", whole seconds and milliseconds.
ToISOString(d) == [sec |-> d \div MsPerSec, ms |-> d % MsPerSec]
\* new Date(isoString)
ParseDate(iso) == iso.sec * MsPerSec + iso.ms

\* ------------------------------------------------------------- codec
\* The compact JWS's signing input: protected header and claims.
SigningInput(tok) ==
    [alg |-> tok.alg, userId |-> tok.userId, userType |-> tok.userType,
     expiresAt |-> tok.expiresAt, iat |-> tok.iat, exp |-> tok.exp]

\* HMAC-SHA256, ideal: two tags are equal exactly for equal key and input.
Hmac(key, input) == [key |-> key, over |-> input]

GetEncodedKey(s) ==
    IF s = Unset THEN Thrown("SESSION_SECRET environment variable is not set")
    ELSE [kind |-> "key", key |-> s]

\* SignJWT(...).setProtectedHeader.setIssuedAt.setExpirationTime('7d').sign(key),
\* the clock read by setIssuedAt being t.  pad is the two unused low bits of the
\* signature's last base64url character (43 characters carry 258 bits for a
\* 256-bit tag); an encoder writes them as 0.
SignJWT(payload, key, t) ==
    LET claims == [alg |-> "HS256",
                   userId |-> payload.userId,
                   userType |-> payload.userType,
                   expiresAt |-> ToISOString(payload.expiresAt),
                   iat |-> t \div MsPerSec,
                   exp |-> (t \div MsPerSec) + SevenDaysSec]
    IN  [t |-> "jws", alg |-> claims.alg, userId |-> claims.userId,
         userType |-> claims.userType, expiresAt |-> claims.expiresAt,
         iat |-> claims.iat, exp |-> claims.exp,
         sig |-> Hmac(key, claims), pad |-> 0]

Encrypt(payload, s, t) ==
    LET k == GetEncodedKey(s)
    IN  IF k.kind = "throw" THEN k
        ELSE [kind |-> "token", tok |-> SignJWT(payload, k.key, t)]

\* jose's jwtVerify(session, key, {algorithms: ['HS256']}) at clock t: the
\* compact form, the allowed algorithm, the signature (decoded from base64url,
\* which drops the pad bits), then the exp claim.
JwtVerify(tok, key, t) ==
    IF tok.t # "jws" THEN Thrown("JWSInvalid")
    ELSE IF tok.alg # "HS256" THEN Thrown("JOSEAlgNotAllowed")
    ELSE IF tok.sig # Hmac(key, SigningInput(tok))
        THEN Thrown("JWSSignatureVerificationFailed")
    ELSE IF tok.exp <= t \div MsPerSec THEN Thrown("JWTExpired")
    ELSE [kind |-> "payload", userId |-> tok.userId, userType |-> tok.userType,
          expiresAt |-> tok.expiresAt]

DecryptRethrows(session, s, t) ==
    IF session \in {NoCookie, EmptyString} THEN Undefined
    ELSE LET k == GetEncodedKey(s)
         IN  IF k.kind = "throw" THEN k
             ELSE LET r == JwtVerify(session, k.key, t)
                  IN  IF r.kind = "throw" THEN r
                      ELSE [kind |-> "session", userId |-> r.userId,
                            userType |-> r.userType,
                            expiresAt |-> ParseDate(r.expiresAt)]

DecryptDropsMs(session, s, t) ==
    IF session \in {NoCookie, EmptyString} THEN Undefined
    ELSE LET k == GetEncodedKey(s)
         IN  IF k.kind = "throw" THEN Undefined
             ELSE LET r == JwtVerify(session, k.key, t)
                  IN  IF r.kind = "throw" THEN Undefined
                      ELSE [kind |-> "session", userId |-> r.userId,
                            userType |-> r.userType,
                            expiresAt |-> r.expiresAt.sec * MsPerSec]

DecryptSkipsSignature(session, s, t) ==
    IF session \in {NoCookie, EmptyString} THEN Undefined
    ELSE LET k == GetEncodedKey(s)
         IN  IF k.kind = "throw" \/ session.t # "jws" THEN Undefined
             ELSE IF session.alg # "HS256" \/ session.exp <= t \div MsPerSec
                 THEN Undefined
             ELSE [kind |-> "session", userId |-> session.userId,
                   userType |-> session.userType,
                   expiresAt |-> ParseDate(session.expiresAt)]

\* decrypt: undefined for a falsy argument; getEncodedKey and jwtVerify run
\* inside the try, and the catch turns every throw into undefined.
Decrypt(session, s, t) ==
    IF session \in {NoCookie, EmptyString} THEN Undefined
    ELSE LET k == GetEncodedKey(s)
         IN  IF k.kind = "throw" THEN Undefined
             ELSE LET r == JwtVerify(session, k.key, t)
                  IN  IF r.kind = "throw" THEN Undefined
                      ELSE [kind |-> "session", userId |-> r.userId,
                            userType |-> r.userType,
                            expiresAt |-> ParseDate(r.expiresAt)]

\* getSession: the cookie's value (undefined when the cookie is absent), decrypted.
GetSession(c, s, t) == Decrypt(c, s, t)

SessionCookieAlwaysSecure(value, env, expiresAt) ==
    [kind |-> "set", name |-> "session", value |-> value, httpOnly |-> TRUE,
     secure |-> TRUE, expires |-> expiresAt, sameSite |-> "lax",
     path |-> "/"]

\* cookieStore.set('session', value, { httpOnly, secure, expires, sameSite,
\* path }) as createSession and updateSession both write it, NODE_ENV being
\* env.
SessionCookie(value, env, expiresAt) ==
    [kind |-> "set", name |-> "session", value |-> value, httpOnly |-> TRUE,
     secure |-> (env = "production"), expires |-> expiresAt,
     sameSite |-> "lax", path |-> "/"]

\* createSession: expiresAt from Date.now() at t, then encrypt, whose
\* setIssuedAt reads the clock again d ms later, then the cookie is set with
\* that same expiresAt.  A throw of encrypt leaves the cookie store alone.
CreateSession(userId, userType, s, env, t, d) ==
    LET expiresAt == t + SevenDaysMs
        session == Encrypt([userId |-> userId, userType |-> userType,
                            expiresAt |-> expiresAt], s, t + d)
    IN  IF session.kind = "throw" THEN session
        ELSE SessionCookie(session.tok, env, expiresAt)

\* createSession: expiresAt from Date.now() at t, then encrypt, whose
\* setIssuedAt reads the clock again d ms later.
CreateSessionToken(userId, userType, s, t, d) ==
    Encrypt([userId |-> userId, userType |-> userType,
             expiresAt |-> t + SevenDaysMs], s, t + d)

UpdateSessionKeepsExpiry(c, s, env, t, d) ==
    LET payload == Decrypt(c, s, t)
    IN  IF payload.kind # "session"
        THEN [cookie |-> c, set |-> NoSet, out |-> Undefined]
        ELSE LET expiresAt == payload.expiresAt
                 r == Encrypt([userId |-> payload.userId,
                               userType |-> payload.userType,
                               expiresAt |-> expiresAt], s, t + d)
             IN  IF r.kind = "throw"
                 THEN [cookie |-> c, set |-> NoSet, out |-> r]
                 ELSE [cookie |-> r.tok,
                       set |-> SessionCookie(r.tok, env, expiresAt),
                       out |-> Undefined]

\* updateSession at clock t: decrypt the cookie and return when it yields
\* nothing; otherwise encrypt the same userId and userType with expiresAt seven
\* days from t (setIssuedAt reads the clock d ms later) and set the cookie.
\* The result is the cookie store afterwards, the cookieStore.set call made
\* (NODE_ENV being env) and what the caller sees.
UpdateSession(c, s, env, t, d) ==
    LET payload == Decrypt(c, s, t)
    IN  IF payload.kind # "session"
        THEN [cookie |-> c, set |-> NoSet, out |-> Undefined]
        ELSE LET expiresAt == t + SevenDaysMs
                 r == Encrypt([userId |-> payload.userId,
                               userType |-> payload.userType,
                               expiresAt |-> expiresAt], s, t + d)
             IN  IF r.kind = "throw"
                 THEN [cookie |-> c, set |-> NoSet, out |-> r]
                 ELSE [cookie |-> r.tok,
                       set |-> SessionCookie(r.tok, env, expiresAt),
                       out |-> Undefined]

DeleteSessionThrowsWhenAbsent(c) ==
    IF c = NoCookie THEN [cookie |-> c, out |-> Thrown("no session cookie")]
    ELSE [cookie |-> NoCookie, out |-> Undefined]

\* deleteSession: cookieStore.delete('session'), whether or not the cookie is
\* there.
DeleteSession(c) == [cookie |-> NoCookie, out |-> Undefined]

\* ------------------------------------------------------------- storage
MaxProfiles == 2      \* profile ids are 1..MaxProfiles
MaxCalls == 2         \* profile server actions that may be in flight together

\* refObjectId: String?, null until a profile is linked.
Null == 0
\* E-mail addresses, as many as there can be users.
Emails == 1..MaxUsers
ProfileIds == 1..MaxProfiles
Requests == 1..MaxCalls
\* The one profile field followed (vision); every field is written alike.
DataValues == {"v1", "v2"}
\* An optional field the update payload leaves out.
NotSupplied == "undefined"

NoUser == [exists |-> FALSE]
NoProfile == [exists |-> FALSE]
Idle == [pc |-> "idle"]

EmptyStore ==
    /\ users = [u \in UserIds |-> NoUser]
    /\ nextUser = 1
    /\ seekerProfiles = [p \in ProfileIds |-> NoProfile]
    /\ companyProfiles = [p \in ProfileIds |-> NoProfile]
    /\ nextProfile = 1

FindByEmailAnyUser(e) == {u \in UserIds : users[u].exists}

\* prisma.user.findUnique({ where: { email } })
FindByEmail(e) == {u \in UserIds : users[u].exists /\ users[u].email = e}

\* new AppError(status, code, message), as handleServerError reports it.
AppError(status, code) == [kind |-> "AppError", status |-> status, code |-> code]
\* Any other throw, as handleServerError reports it.
InternalError == [kind |-> "Error", status |-> 500, code |-> "INTERNAL_ERROR"]
ValidationError == [kind |-> "Error", status |-> 400, code |-> "VALIDATION_ERROR"]

Failure(e) == [success |-> FALSE, status |-> e.status, code |-> e.code]
Success(id) == [success |-> TRUE, profile |-> id]

\* ------------------------------------------------------------- inputs
Payloads ==
    [userId : UserIdValues, userType : RoleValues, expiresAt : 0..MaxTime]

\* Every token that differs from tok in one character: a character of the
\* header, of a claim, a separator (the compact form breaks), a character of
\* the signature that changes the decoded tag, or the last signature
\* character changed in its unused low bits only.
Tampered(tok) ==
    {[tok EXCEPT !.alg = "none"]}
    \cup {[tok EXCEPT !.userId = u] : u \in UserIdValues \ {tok.userId}}
    \cup {[tok EXCEPT !.userType = r] : r \in RoleValues \ {tok.userType}}
    \cup {[tok EXCEPT !.expiresAt = ToISOString(ParseDate(tok.expiresAt) + 1)]}
    \cup {[tok EXCEPT !.exp = tok.exp + 1]}
    \cup {[tok EXCEPT !.sig = Hmac("flipped", tok.sig.over)]}
    \cup {[tok EXCEPT !.pad = p] : p \in 1..3}
    \cup {Malformed}

\* What a client can put in the cookie without the server's key.
Forged(t) ==
    {NoCookie, EmptyString, Malformed}
    \cup {SignJWT([userId |-> u, userType |-> "SEEKER",
                   expiresAt |-> t + SevenDaysMs], "attacker", t) : u \in UserIds}

\* ------------------------------------------------------------- codec calls
\* One input is drawn, optionally changed in one character, and verified at
\* some later time.  The clock starts anywhere within its first second.
InitCodec ==
    /\ secret \in SecretValues
    /\ now \in 0..(MsPerSec - 1)
    /\ cookie = NoCookie
    /\ issued = NoIssue
    /\ ret = NoCall
    /\ EmptyStore
    /\ calls = [c \in Requests |-> Idle]
    /\ render = NoRender

Verified == ret.fn \in {"decrypt", "getSession"}

\* encrypt(payload); the caller keeps the token in the cookie.
CodecEncrypt(payload) ==
    /\ issued = NoIssue
    /\ LET r == Encrypt(payload, secret, now)
       IN  /\ ret' = [fn |-> "encrypt", arg |-> NoCookie,
                      out |-> IF r.kind = "token" THEN [kind |-> "token"] ELSE r]
           /\ IF r.kind = "token"
              THEN /\ cookie' = r.tok
                   /\ issued' = [t |-> "issued", payload |-> payload,
                                 tok |-> r.tok, at |-> now, by |-> "encrypt"]
              ELSE UNCHANGED <<cookie, issued>>
    /\ UNCHANGED <<secret, now, storeVars, calls>>
    /\ UNCHANGED render

\* createSession(userId, userType), NODE_ENV being env.
CodecCreateSession(userId, userType, env, d) ==
    /\ issued = NoIssue
    /\ now + d <= MaxTime
    /\ LET r == CreateSession(userId, userType, secret, env, now, d)
       IN  /\ ret' = [fn |-> "createSession", arg |-> NoCookie, env |-> env,
                      set |-> IF r.kind = "set" THEN r ELSE NoSet,
                      out |-> IF r.kind = "set" THEN Undefined ELSE r]
           /\ IF r.kind = "set"
              THEN /\ cookie' = r.value
                   /\ issued' = [t |-> "issued",
                                 payload |-> [userId |-> userId,
                                              userType |-> userType,
                                              expiresAt |-> now + SevenDaysMs],
                                 tok |-> r.value, at |-> now + d,
                                 by |-> "createSession"]
              ELSE UNCHANGED <<cookie, issued>>
    /\ now' = now + d
    /\ UNCHANGED <<secret, storeVars, calls>>
    /\ UNCHANGED render

\* The client changes one character of the token it was issued.
CodecTamper ==
    /\ issued # NoIssue
    /\ ~Verified
    /\ ret.fn \notin {"updateSession", "deleteSession"}
    /\ cookie = issued.tok
    /\ cookie' \in Tampered(cookie)
    /\ UNCHANGED <<secret, now, issued, ret, storeVars, calls>>
    /\ UNCHANGED render

\* The client presents a cookie of its own making.
CodecPresent ==
    /\ issued = NoIssue
    /\ ret = NoCall
    /\ cookie' \in Forged(now) \ {cookie}
    /\ UNCHANGED <<secret, now, issued, ret, storeVars, calls>>
    /\ UNCHANGED render

CodecTick ==
    /\ now < MaxTime
    /\ ~Verified
    /\ now' = now + 1
    /\ UNCHANGED <<secret, cookie, issued, ret, storeVars, calls>>
    /\ UNCHANGED render

CodecDecrypt ==
    /\ ret' = [fn |-> "decrypt", arg |-> cookie,
               out |-> Decrypt(cookie, secret, now)]
    /\ UNCHANGED <<secret, now, cookie, issued, storeVars, calls>>
    /\ UNCHANGED render

CodecGetSession ==
    /\ ret' = [fn |-> "getSession", arg |-> cookie,
               out |-> GetSession(cookie, secret, now)]
    /\ UNCHANGED <<secret, now, cookie, issued, storeVars, calls>>
    /\ UNCHANGED render

\* updateSession(), NODE_ENV being env.
CodecUpdateSession(env, d) ==
    /\ now + d <= MaxTime
    /\ LET r == UpdateSession(cookie, secret, env, now, d)
       IN  /\ ret' = [fn |-> "updateSession", arg |-> cookie, at |-> now,
                      env |-> env, set |-> r.set, out |-> r.out]
           /\ cookie' = r.cookie
    /\ now' = now + d
    /\ UNCHANGED <<secret, issued, storeVars, calls, render>>

\* deleteSession()
CodecDeleteSession ==
    /\ LET r == DeleteSession(cookie)
       IN  /\ ret' = [fn |-> "deleteSession", arg |-> cookie, out |-> r.out]
           /\ cookie' = r.cookie
    /\ UNCHANGED <<secret, now, issued, storeVars, calls, render>>

NextCodec ==
    \/ \E p \in Payloads : CodecEncrypt(p)
    \/ \E u \in UserIds, r \in UserTypes, env \in NodeEnvs,
             d \in 0..MaxSignDelay :
          CodecCreateSession(u, r, env, d)
    \/ CodecTamper
    \/ CodecPresent
    \/ CodecTick
    \/ CodecDecrypt
    \/ CodecGetSession
    \/ \E env \in NodeEnvs, d \in 0..MaxSignDelay : CodecUpdateSession(env, d)
    \/ CodecDeleteSession

SpecCodec == InitCodec /\ [][NextCodec]_vars

\* ------------------------------------------------------------- auth actions
\* registerAction with a schema-valid form: registerUser (the email must be
\* free), createSession for the new user, then redirect('/profile/setup')
\* outside the try.  AppError's details is never set, so the conflict is
\* returned as { error: undefined }; any other throw (createSession without a
\* key) is returned as 'Registration failed. Please try again.'.
RegisterAction(email, userType, d) ==
    /\ now + d <= MaxTime
    /\ IF FindByEmail(email) # {}
       THEN /\ ret' = [fn |-> "registerAction", out |-> [kind |-> "result",
                       error |-> "undefined"]]
            /\ UNCHANGED <<users, nextUser, cookie, now>>
       ELSE /\ nextUser <= MaxUsers
            /\ users' = [users EXCEPT ![nextUser] =
                            [exists |-> TRUE, email |-> email,
                             userType |-> userType, refObjectId |-> Null,
                             isActive |-> TRUE]]
            /\ nextUser' = nextUser + 1
            /\ LET r == CreateSessionToken(nextUser, userType, secret, now, d)
               IN  IF r.kind = "token"
                   THEN /\ cookie' = r.tok
                        /\ now' = now + d
                        /\ ret' = [fn |-> "registerAction",
                                   out |-> Redirect("/profile/setup")]
                   ELSE /\ ret' = [fn |-> "registerAction",
                                   out |-> [kind |-> "result",
                                            error |-> "Registration failed"]]
                        /\ UNCHANGED <<cookie, now>>
    /\ UNCHANGED <<secret, issued, seekerProfiles, companyProfiles,
                   nextProfile, calls>>
    /\ UNCHANGED render

\* loginAction: LoginSchema.safeParse of the form (valid tells its outcome),
\* then loginUser (the user of that email, the password, isActive), then
\* createSession for the user, then redirect().  A form the schema rejects is
\* returned as 'Validation failed'.  AppError's details is never set, so a
\* refused login is returned as { error: undefined }.  redirect() is called
\* inside the try: the catch takes its NEXT_REDIRECT throw, like a throw of
\* createSession, for a failure and returns 'Login failed. Please try
\* again.'; the cookie set before it stays.
LoginAction(email, passwordOk, valid, d) ==
    /\ now + d <= MaxTime
    /\ LET found == FindByEmail(email)
           refused == \/ found = {}
                      \/ ~passwordOk
                      \/ \E u \in found : ~users[u].isActive
           arg == [email |-> email, passwordOk |-> passwordOk, valid |-> valid]
       IN  IF ~valid
           THEN /\ ret' = [fn |-> "loginAction", arg |-> arg,
                           out |-> [kind |-> "result",
                                    error |-> "Validation failed"]]
                /\ UNCHANGED <<cookie, now>>
           ELSE IF refused
           THEN /\ ret' = [fn |-> "loginAction", arg |-> arg,
                           out |-> [kind |-> "result", error |-> "undefined"]]
                /\ UNCHANGED <<cookie, now>>
           ELSE LET user == CHOOSE u \in found : TRUE
                    r == CreateSessionToken(user, users[user].userType, secret,
                                            now, d)
                IN  /\ ret' = [fn |-> "loginAction", arg |-> arg,
                               out |-> [kind |-> "result",
                                        error |-> "Login failed"]]
                    /\ IF r.kind = "token"
                       THEN cookie' = r.tok /\ now' = now + d
                       ELSE UNCHANGED <<cookie, now>>
    /\ UNCHANGED <<secret, issued, storeVars, calls, render>>

LogoutActionKeepsCookie ==
    /\ cookie # NoCookie
    /\ ret' = [fn |-> "logoutAction", out |-> Redirect("/")]
    /\ UNCHANGED <<secret, now, cookie, issued, storeVars, calls, render>>

\* logoutAction: deleteSession, then redirect('/').
LogoutAction ==
    /\ cookie # NoCookie
    /\ cookie' = NoCookie
    /\ ret' = [fn |-> "logoutAction", out |-> Redirect("/")]
    /\ UNCHANGED <<secret, now, issued, storeVars, calls>>
    /\ UNCHANGED render

\* ------------------------------------------------------------- profile actions
ProfileOps ==
    {"createSeekerProfile", "updateSeekerProfile",
     "createCompanyProfile", "updateCompanyProfile"}
CreateOps == {"createSeekerProfile", "createCompanyProfile"}
UpdateOps == {"updateSeekerProfile", "updateCompanyProfile"}
SeekerOps == {"createSeekerProfile", "updateSeekerProfile"}

\* The role a create service demands of the user.
RoleOf(op) == IF op \in SeekerOps THEN "SEEKER" ELSE "COMPANY"

\* What the action returns to its caller, with the request it answered.
Returned(call, result) ==
    [fn |-> call.op, userId |-> call.userId, out |-> result]

\* The first free request slot.
FreeSlot == CHOOSE c \in Requests :
                /\ calls[c] = Idle
                /\ \A b \in Requests : calls[b] = Idle => c <= b

CreateCheckSkipsExists(op, user) ==
    IF ~user.exists THEN AppError(404, "USER_NOT_FOUND")
    ELSE IF user.userType # RoleOf(op) THEN AppError(403, "INVALID_USER_TYPE")
    ELSE [kind |-> "pass"]

CreateCheckSkipsType(op, user) ==
    IF ~user.exists THEN AppError(404, "USER_NOT_FOUND")
    ELSE IF user.refObjectId # Null THEN AppError(409, "PROFILE_EXISTS")
    ELSE [kind |-> "pass"]

\* The checks of createSeekerProfile / createCompanyProfile on the user read.
CreateCheck(op, user) ==
    IF ~user.exists THEN AppError(404, "USER_NOT_FOUND")
    ELSE IF user.userType # RoleOf(op) THEN AppError(403, "INVALID_USER_TYPE")
    ELSE IF user.refObjectId # Null THEN AppError(409, "PROFILE_EXISTS")
    ELSE [kind |-> "pass"]

UpdateCheckReportsValidation(user) ==
    IF ~user.exists \/ user.refObjectId = Null
    THEN ValidationError
    ELSE [kind |-> "pass"]

\* The check of updateSeekerProfile / updateCompanyProfile on the user read.
UpdateCheck(user) ==
    IF ~user.exists \/ user.refObjectId = Null
    THEN AppError(404, "PROFILE_NOT_FOUND")
    ELSE [kind |-> "pass"]

\* A client invokes <op>Action(userId, data): a server action, posted with the
\* browser's cookie, which no line of the action reads.  safeParse rejects an invalid payload at once; otherwise
\* the service is called and suspends at its findUnique.
Invoke(op, userId, data, valid) ==
    /\ \E c \in Requests : calls[c] = Idle
    /\ LET call == [pc |-> "find", op |-> op, userId |-> userId,
                    data |-> data, ref |-> Null]
       IN  IF valid
           THEN /\ calls' = [calls EXCEPT ![FreeSlot] = call]
                /\ ret' = NoCall
           ELSE /\ ret' = Returned(call, Failure(ValidationError))
                /\ UNCHANGED calls
    /\ UNCHANGED <<secret, now, cookie, issued, storeVars>>
    /\ UNCHANGED render

\* prisma.user.findUnique({ where: { id: userId } }) resolves and the checks run.
FindUser(c) ==
    /\ calls[c].pc = "find"
    /\ LET call == calls[c]
           user == users[call.userId]
           chk == IF call.op \in CreateOps THEN CreateCheck(call.op, user)
                  ELSE UpdateCheck(user)
       IN  IF chk.kind # "pass"
           THEN /\ calls' = [calls EXCEPT ![c] = Idle]
                /\ ret' = Returned(call, Failure(chk))
           ELSE /\ calls' = [calls EXCEPT ![c] =
                               IF call.op \in CreateOps
                               THEN [call EXCEPT !.pc = "create"]
                               ELSE [call EXCEPT !.pc = "write",
                                                 !.ref = user.refObjectId]]
                /\ ret' = NoCall
    /\ UNCHANGED <<secret, now, cookie, issued, storeVars>>
    /\ UNCHANGED render

\* prisma.seekerProfile.create / prisma.companyProfile.create
CreateProfile(c) ==
    /\ calls[c].pc = "create"
    /\ nextProfile <= MaxProfiles
    /\ LET call == calls[c]
           rec == [exists |-> TRUE, vision |-> call.data]
       IN  /\ IF call.op = "createSeekerProfile"
              THEN /\ seekerProfiles' =
                          [seekerProfiles EXCEPT ![nextProfile] = rec]
                   /\ UNCHANGED companyProfiles
              ELSE /\ companyProfiles' =
                          [companyProfiles EXCEPT ![nextProfile] = rec]
                   /\ UNCHANGED seekerProfiles
           /\ calls' = [calls EXCEPT ![c] =
                           [call EXCEPT !.pc = "link", !.ref = nextProfile]]
    /\ nextProfile' = nextProfile + 1
    /\ ret' = NoCall
    /\ UNCHANGED <<secret, now, cookie, issued, users, nextUser>>
    /\ UNCHANGED render

\* prisma.user.update({ where: { id: userId }, data: { refObjectId: profile.id } });
\* it throws when the user is gone.
LinkUser(c) ==
    /\ calls[c].pc = "link"
    /\ LET call == calls[c]
       IN  IF users[call.userId].exists
           THEN /\ users' = [users EXCEPT ![call.userId].refObjectId = call.ref]
                /\ ret' = Returned(call, Success(call.ref))
           ELSE /\ ret' = Returned(call, Failure(InternalError))
                /\ UNCHANGED users
    /\ calls' = [calls EXCEPT ![c] = Idle]
    /\ UNCHANGED <<secret, now, cookie, issued, nextUser, seekerProfiles,
                   companyProfiles, nextProfile>>
    /\ UNCHANGED render

ApplyUpdateToAll(table, ref, data) ==
    IF data = NotSupplied THEN table
    ELSE [p \in DOMAIN table |->
             IF table[p].exists THEN [table[p] EXCEPT !.vision = data]
             ELSE table[p]]

\* update({ where: { id }, data: { ...(data.vision !== undefined && { vision }) } }):
\* the record of that id takes the fields the payload supplies.
ApplyUpdate(table, ref, data) ==
    IF data = NotSupplied THEN table
    ELSE [table EXCEPT ![ref].vision = data]

\* prisma.seekerProfile.update / prisma.companyProfile.update
\* ({ where: { id: user.refObjectId }, data }); it throws when the collection
\* holds no record of that id.
WriteProfile(c) ==
    /\ calls[c].pc = "write"
    /\ LET call == calls[c]
           seeker == call.op = "updateSeekerProfile"
           table == IF seeker THEN seekerProfiles ELSE companyProfiles
       IN  IF table[call.ref].exists
           THEN /\ IF seeker
                   THEN /\ seekerProfiles' =
                              ApplyUpdate(seekerProfiles, call.ref, call.data)
                        /\ UNCHANGED companyProfiles
                   ELSE /\ companyProfiles' =
                              ApplyUpdate(companyProfiles, call.ref, call.data)
                        /\ UNCHANGED seekerProfiles
                /\ ret' = Returned(call, Success(call.ref))
           ELSE /\ ret' = Returned(call, Failure(InternalError))
                /\ UNCHANGED <<seekerProfiles, companyProfiles>>
    /\ calls' = [calls EXCEPT ![c] = Idle]
    /\ UNCHANGED <<secret, now, cookie, issued, users, nextUser, nextProfile>>
    /\ UNCHANGED render

\* A registered user who has not set up a profile yet.
NewUser(email, userType) ==
    [exists |-> TRUE, email |-> email, userType |-> userType,
     refObjectId |-> Null, isActive |-> TRUE]

\* The profile services are followed from any population registerAction can
\* have left: each id either never given or a user without a profile, and the
\* browser either without a cookie or holding the session of one of the users,
\* issued at time 0.
InitProfile ==
    /\ secret = "k1"
    /\ now = 0
    /\ users \in [UserIds -> {NoUser} \cup
                     {NewUser(e, r) : e \in Emails, r \in UserTypes}]
    /\ \A u \in UserIds : users[u].exists => users[u].email = u
    /\ nextUser = MaxUsers + 1
    /\ seekerProfiles = [p \in ProfileIds |-> NoProfile]
    /\ companyProfiles = [p \in ProfileIds |-> NoProfile]
    /\ nextProfile = 1
    /\ cookie \in {NoCookie} \cup
          {CreateSessionToken(u, users[u].userType, secret, now, 0).tok :
              u \in {v \in UserIds : users[v].exists}}
    /\ issued = NoIssue
    /\ ret = NoCall
    /\ calls = [c \in Requests |-> Idle]
    /\ render = NoRender

NextProfile ==
    \/ \E op \in ProfileOps, u \in UserIds, ok \in BOOLEAN :
          \E v \in DataValues \cup (IF op \in UpdateOps THEN {NotSupplied} ELSE {}) :
              Invoke(op, u, v, ok)
    \/ \E c \in Requests : FindUser(c)
    \/ \E c \in Requests : CreateProfile(c)
    \/ \E c \in Requests : LinkUser(c)
    \/ \E c \in Requests : WriteProfile(c)

SpecProfile == InitProfile /\ [][NextProfile]_vars

\* ------------------------------------------------------------- gate (dal)
SessionData(userId, userType) ==
    [kind |-> "sessionData", isAuth |-> TRUE, userId |-> userId,
     userType |-> userType]

Null_ == [kind |-> "null"]

VerifySessionDecodesOnly(c, s, t) ==
    IF c.t # "jws" \/ c.userId = 0
    THEN Redirect("/login")
    ELSE SessionData(c.userId, c.userType)

\* verifySession: decrypt the cookie; redirect('/login') unless it yields a
\* session with a truthy userId.
VerifySession(c, s, t) ==
    LET session == Decrypt(c, s, t)
    IN  IF session.kind # "session" \/ session.userId = 0
        THEN Redirect("/login")
        ELSE SessionData(session.userId, session.userType)

\* getUser: verifySession, then prisma.user.findUnique by the session's userId
\* with the selected fields; null when there is no such user.
GetUser(c, s, t, us) ==
    LET session == VerifySession(c, s, t)
    IN  IF session.kind = "redirect" THEN session
        ELSE IF ~us[session.userId].exists THEN Null_
        ELSE LET user == us[session.userId]
             IN  [kind |-> "user", id |-> session.userId, email |-> user.email,
                  userType |-> user.userType, refObjectId |-> user.refObjectId]

\* A relation of the user record: the record of that collection the user's
\* refObjectId names, null when there is none, absent when not included.
Relation(include, table, ref) ==
    IF ~include THEN "notIncluded"
    ELSE IF ref \in DOMAIN table /\ table[ref].exists THEN "record"
    ELSE "null"

\* getUserWithProfile: verifySession, then findUnique including the seeker
\* relation when the session's userType is SEEKER and the company relation when
\* it is COMPANY.
GetUserWithProfile(c, s, t, us, sp, cp) ==
    LET session == VerifySession(c, s, t)
    IN  IF session.kind = "redirect" THEN session
        ELSE IF ~us[session.userId].exists THEN Null_
        ELSE LET user == us[session.userId]
             IN  [kind |-> "user", id |-> session.userId, email |-> user.email,
                  userType |-> user.userType, refObjectId |-> user.refObjectId,
                  seekerProfile |->
                      Relation(session.userType = "SEEKER", sp, user.refObjectId),
                  companyProfile |->
                      Relation(session.userType = "COMPANY", cp, user.refObjectId)]

Rendered(page, userId) == [kind |-> "page", page |-> page, userId |-> userId]

DashboardPageRedirectsWithoutUser(c, s, t, us) ==
    LET user == GetUser(c, s, t, us)
    IN  IF user.kind = "user" THEN Rendered("/dashboard", user.id)
        ELSE Redirect("/login")

\* DashboardPage: getUser; return null when there is no user.
DashboardPage(c, s, t, us) ==
    LET user == GetUser(c, s, t, us)
    IN  IF user.kind = "user" THEN Rendered("/dashboard", user.id) ELSE user

\* ProfilePage: getUserWithProfile; return null when there is no user.
ProfilePage(c, s, t, us, sp, cp) ==
    LET user == GetUserWithProfile(c, s, t, us, sp, cp)
    IN  IF user.kind = "user" THEN Rendered("/profile", user.id) ELSE user

\* ProfileEditPage: getUserWithProfile; redirect('/login') when there is no
\* user, redirect('/profile/setup') when the user has no refObjectId.
ProfileEditPage(c, s, t, us, sp, cp) ==
    LET user == GetUserWithProfile(c, s, t, us, sp, cp)
    IN  IF user.kind = "redirect" THEN user
        ELSE IF user.kind = "null" THEN Redirect("/login")
        ELSE IF user.refObjectId = Null THEN Redirect("/profile/setup")
        ELSE Rendered("/profile/edit", user.id)

\* ProfileSetupPage: verifySession, then the form of the session's userType.
ProfileSetupPage(c, s, t) ==
    LET session == VerifySession(c, s, t)
    IN  IF session.kind = "redirect" THEN session
        ELSE Rendered("/profile/setup", session.userId)

GateFns ==
    {"verifySession", "getUser", "getUserWithProfile", "DashboardPage",
     "ProfilePage", "ProfileEditPage", "ProfileSetupPage"}

\* One request: the function is called with the request's cookie and answers.
Call(fn) ==
    CASE fn = "verifySession" -> VerifySession(cookie, secret, now)
      [] fn = "getUser" -> GetUser(cookie, secret, now, users)
      [] fn = "getUserWithProfile" ->
            GetUserWithProfile(cookie, secret, now, users, seekerProfiles,
                               companyProfiles)
      [] fn = "DashboardPage" -> DashboardPage(cookie, secret, now, users)
      [] fn = "ProfilePage" ->
            ProfilePage(cookie, secret, now, users, seekerProfiles,
                        companyProfiles)
      [] fn = "ProfileEditPage" ->
            ProfileEditPage(cookie, secret, now, users, seekerProfiles,
                            companyProfiles)
      [] fn = "ProfileSetupPage" -> ProfileSetupPage(cookie, secret, now)

Request(fn) ==
    /\ ret' = [fn |-> fn, out |-> Call(fn)]
    /\ UNCHANGED <<secret, now, cookie, issued, storeVars, calls>>
    /\ UNCHANGED render

\* The token is the server's own, unmodified: only such a token is one
\* character away from what Tampered makes of it.
Pristine(c) ==
    /\ c.t = "jws"
    /\ c.pad = 0
    /\ c.sig = Hmac(secret, SigningInput(c))

\* The browser's cookie is in the client's hands: it can replace it (a forged
\* token claims the longest life the horizon allows) or change one character
\* of it.
ClientSetsCookie ==
    /\ cookie' \in (Forged(MaxTime) \cup
                      (IF Pristine(cookie) THEN Tampered(cookie) ELSE {}))
                   \ {cookie}
    /\ ret' = NoCall
    /\ UNCHANGED <<secret, now, issued, storeVars, calls>>
    /\ UNCHANGED render

\* The storage loses a user record (an account removed after its token was issued).
DeleteUser(u) ==
    /\ users[u].exists
    /\ users' = [users EXCEPT ![u] = NoUser]
    /\ ret' = NoCall
    /\ UNCHANGED <<secret, now, cookie, issued, nextUser, seekerProfiles,
                   companyProfiles, nextProfile, calls>>
    /\ UNCHANGED render

GateTick ==
    /\ now < MaxTime
    /\ now' = now + 1
    /\ ret' = NoCall
    /\ UNCHANGED <<secret, cookie, issued, storeVars, calls>>
    /\ UNCHANGED render

InitGate ==
    /\ secret \in SecretValues
    /\ now = 0
    /\ cookie = NoCookie
    /\ issued = NoIssue
    /\ ret = NoCall
    /\ EmptyStore
    /\ calls = [c \in Requests |-> Idle]
    /\ render = NoRender

NextGate ==
    \/ \E e \in Emails, r \in UserTypes : RegisterAction(e, r, 0)
    \/ LogoutAction
    \/ ClientSetsCookie
    \/ \E u \in UserIds : DeleteUser(u)
    \/ GateTick
    \/ \E fn \in GateFns : Request(fn)

SpecGate == InitGate /\ [][NextGate]_vars

\* ------------------------------------------------------------- lifecycle
\* A profile action is invoked with a valid payload while no other is in
\* flight: the operations of one browser, one after the other.
LifeInvoke(op, userId) ==
    /\ \A c \in Requests : calls[c] = Idle
    /\ Invoke(op, userId, "v1", TRUE)

\* updateSession() on the browser's cookie.
LifeUpdateSession ==
    /\ \E env \in NodeEnvs :
          LET r == UpdateSession(cookie, secret, env, now, 0)
          IN  /\ cookie' = r.cookie
              /\ ret' = [fn |-> "updateSession", out |-> r.out]
    /\ UNCHANGED <<secret, now, issued, storeVars, calls, render>>

\* Registration, login (with forms the schema accepts), logout, refresh, the
\* passing of time and the profile services, in any order.
NextLife ==
    \/ \E e \in Emails, r \in UserTypes : RegisterAction(e, r, 0)
    \/ \E e \in Emails, ok \in BOOLEAN : LoginAction(e, ok, TRUE, 0)
    \/ LogoutAction
    \/ LifeUpdateSession
    \/ GateTick
    \/ \E op \in ProfileOps, u \in UserIds : LifeInvoke(op, u)
    \/ \E c \in Requests : FindUser(c)
    \/ \E c \in Requests : CreateProfile(c)
    \/ \E c \in Requests : LinkUser(c)
    \/ \E c \in Requests : WriteProfile(c)

SpecLife == InitGate /\ [][NextLife]_vars

\* ------------------------------------------------------------- edge guard
MaxPathLen == 4       \* longest request path followed, in chunks

\* A path is a string, followed as the sequence of the chunks it is made of:
\* the separator and the four route names; a name that follows another
\* without a separator makes a path that only begins like a route.
Chunks == {"/", "dashboard", "profile", "login", "register"}

RECURSIVE SeqsUpTo(_)
SeqsUpTo(n) ==
    IF n = 0 THEN {<<>>}
    ELSE LET shorter == SeqsUpTo(n - 1)
         IN  shorter \cup {Append(q, ch) : q \in shorter, ch \in Chunks}

\* req.nextUrl.pathname: a string that begins with the separator.
Paths == {q \in SeqsUpTo(MaxPathLen) : Len(q) >= 1 /\ q[1] = "/"}

protectedRoutes == {<<"/", "dashboard">>, <<"/", "profile">>}
publicRoutes == {<<"/", "login">>, <<"/", "register">>, <<"/">>}

\* String.prototype.startsWith
StartsWith(path, route) ==
    /\ Len(path) >= Len(route)
    /\ SubSeq(path, 1, Len(route)) = route

\* NextResponse.next()
NextResponse == [kind |-> "next"]

ProxyRedirectsEveryPublic(path, c, s, t) ==
    LET session == Decrypt(c, s, t)
        hasUser == session.kind = "session" /\ session.userId # 0
    IN  IF (\E route \in protectedRoutes : StartsWith(path, route)) /\ ~hasUser
        THEN Redirect("/login")
        ELSE IF path \in publicRoutes /\ hasUser THEN Redirect("/dashboard")
        ELSE NextResponse

\* proxy(req): decides on the path and the cookie alone.
Proxy(path, c, s, t) ==
    LET isProtectedRoute == \E route \in protectedRoutes : StartsWith(path, route)
        isPublicRoute == path \in publicRoutes
        session == Decrypt(c, s, t)
        hasUser == session.kind = "session" /\ session.userId # 0
    IN  IF isProtectedRoute /\ ~hasUser THEN Redirect("/login")
        ELSE IF /\ isPublicRoute
                /\ hasUser
                /\ path \in {<<"/", "login">>, <<"/", "register">>}
             THEN Redirect("/dashboard")
        ELSE NextResponse

\* The cookies a browser can send: none, a token the server issued at time 0
\* (also one with an empty userId), such a token with one character changed,
\* or one of the client's own making.
ProxyCookies ==
    LET own == {CreateSessionToken(u, "SEEKER", "k1", 0, 0).tok :
                   u \in UserIdValues}
    IN  own \cup UNION {Tampered(tok) : tok \in own} \cup Forged(0)

\* The guard is followed for one request, at any time, with any cookie,
\* whether the users exist or not.
InitProxy ==
    /\ secret \in SecretValues
    /\ now = 0
    /\ cookie \in ProxyCookies
    /\ issued = NoIssue
    /\ ret = NoCall
    /\ users \in {[u \in UserIds |-> NoUser],
                  [u \in UserIds |-> NewUser(u, "SEEKER")]}
    /\ nextUser = MaxUsers + 1
    /\ seekerProfiles = [p \in ProfileIds |-> NoProfile]
    /\ companyProfiles = [p \in ProfileIds |-> NoProfile]
    /\ nextProfile = 1
    /\ calls = [c \in Requests |-> Idle]
    /\ render = NoRender

\* Time passes before the request.
ProxyTick ==
    /\ ret = NoCall
    /\ now < MaxTime
    /\ now' = now + 1
    /\ UNCHANGED <<secret, cookie, issued, ret, storeVars, calls, render>>

\* A request for path passes the edge guard.
ProxyRequest(path) ==
    /\ ret = NoCall
    /\ ret' = [fn |-> "proxy", path |-> path,
               out |-> Proxy(path, cookie, secret, now)]
    /\ UNCHANGED <<secret, now, cookie, issued, storeVars, calls, render>>

NextProxy ==
    \/ ProxyTick
    \/ \E path \in Paths : ProxyRequest(path)

SpecProxy == InitProxy /\ [][NextProxy]_vars

\* ------------------------------------------------------------- one render
MaxRenderCalls == 3   \* calls of the data access layer followed in one request

DalFns == {"verifySession", "getUser", "getUserWithProfile"}

\* React cache(): no entry yet for the function in this request.
Miss == [kind |-> "miss"]

\* A request begins: every cache() memo is empty, nothing has been verified or
\* looked up.
FreshRender ==
    [t |-> "request", cache |-> [f \in DalFns |-> Miss], decrypts |-> 0,
     lookups |-> 0, n |-> 0]

\* What a call of fn computes when its memo holds nothing.
Compute(fn) ==
    CASE fn = "verifySession" -> VerifySession(cookie, secret, now)
      [] fn = "getUser" -> GetUser(cookie, secret, now, users)
      [] fn = "getUserWithProfile" ->
            GetUserWithProfile(cookie, secret, now, users, seekerProfiles,
                               companyProfiles)

\* One call of verifySession, getUser or getUserWithProfile within the
\* request.  Each function is wrapped in its own cache(): a second call of the
\* same function returns the memo (a thrown redirect is memoised too).  On a
\* miss, verifySession runs decrypt; getUser and getUserWithProfile call
\* verifySession (through its memo) and, when it returns, each runs its own
\* prisma.user.findUnique.
RenderCall(fn) ==
    /\ render.t = "request"
    /\ render.n < MaxRenderCalls
    /\ LET hit == render.cache[fn] # Miss
           gateMiss == render.cache["verifySession"] = Miss
           gate == VerifySession(cookie, secret, now)
           out == IF hit THEN render.cache[fn] ELSE Compute(fn)
           looked == ~hit /\ fn # "verifySession" /\ gate.kind # "redirect"
       IN  /\ ret' = [fn |-> fn, out |-> out]
           /\ render' =
                 [render EXCEPT
                    !.n = @ + 1,
                    !.cache = IF hit THEN @
                              ELSE [@ EXCEPT ![fn] = out,
                                             !["verifySession"] = gate],
                    !.decrypts = IF ~hit /\ gateMiss THEN @ + 1 ELSE @,
                    !.lookups = IF looked THEN @ + 1 ELSE @]
    /\ UNCHANGED <<secret, now, cookie, issued, storeVars, calls>>

\* The next request of the same browser: the memos are per request.
NewRequest ==
    /\ render.t = "request"
    /\ render.n > 0
    /\ render' = FreshRender
    /\ ret' = NoCall
    /\ UNCHANGED <<secret, now, cookie, issued, storeVars, calls>>

\* A user with the profile of its role linked; the profile takes the user's id.
LinkedUser(u, userType) ==
    [exists |-> TRUE, email |-> u, userType |-> userType, refObjectId |-> u,
     isActive |-> TRUE]

\* The profile record of collection role that user u is linked to, if any.
ProfileOf(us, role, p) ==
    IF /\ p \in UserIds
       /\ us[p].exists
       /\ us[p].userType = role
       /\ us[p].refObjectId = p
    THEN [exists |-> TRUE, vision |-> "v1"]
    ELSE NoProfile

\* A request is followed over any population of users, with and without
\* profiles, and any cookie: none, or a token encrypt signed for a userId and a
\* role (encrypt signs whatever payload it is handed).
InitRender ==
    /\ secret = "k1"
    /\ now = 0
    /\ users \in [UserIds -> {NoUser}
                     \cup {NewUser(e, r) : e \in Emails, r \in UserTypes}
                     \cup {LinkedUser(e, r) : e \in Emails \cap ProfileIds,
                                              r \in UserTypes}]
    /\ \A u \in UserIds : users[u].exists => users[u].email = u
    /\ nextUser = MaxUsers + 1
    /\ seekerProfiles = [p \in ProfileIds |-> ProfileOf(users, "SEEKER", p)]
    /\ companyProfiles = [p \in ProfileIds |-> ProfileOf(users, "COMPANY", p)]
    /\ nextProfile = MaxProfiles + 1
    /\ cookie \in {NoCookie} \cup
          {Encrypt([userId |-> u, userType |-> r, expiresAt |-> SevenDaysMs],
                   secret, now).tok : u \in UserIds, r \in RoleValues}
    /\ issued = NoIssue
    /\ ret = NoCall
    /\ calls = [c \in Requests |-> Idle]
    /\ render = FreshRender

NextRender ==
    \/ \E fn \in DalFns : RenderCall(fn)
    \/ NewRequest

SpecRender == InitRender /\ [][NextRender]_vars

\* ------------------------------------------------------------- authentication
\* registerAction up to the first storage call of registerUser:
\* RegisterSchema.safeParse of the form (valid tells its outcome), then
\* prisma.user.findUnique by email.  A form the schema rejects is returned as
\* 'Validation failed'; a taken email throws AppError(409,
\* 'USER_ALREADY_EXISTS', 'Email already registered'), which the catch returns
\* as { error: error.details }, and details is never set.
RegisterInvoke(email, userType, valid) ==
    /\ \E c \in Requests : calls[c] = Idle
    /\ LET arg == [email |-> email, userType |-> userType, valid |-> valid]
       IN  IF ~valid
           THEN /\ ret' = [fn |-> "registerAction", arg |-> arg,
                           out |-> [kind |-> "result",
                                    error |-> "Validation failed"]]
                /\ UNCHANGED calls
           ELSE IF FindByEmail(email) # {}
           THEN /\ ret' = [fn |-> "registerAction", arg |-> arg,
                           out |-> [kind |-> "result", error |-> "undefined"]]
                /\ UNCHANGED calls
           ELSE /\ calls' = [calls EXCEPT ![FreeSlot] =
                                [pc |-> "user.create", op |-> "registerAction",
                                 arg |-> arg]]
                /\ ret' = NoCall
    /\ UNCHANGED <<secret, now, cookie, issued, storeVars, render>>

\* The rest of registerAction: prisma.user.create, which the unique index on
\* email refuses when the email was taken meanwhile (a storage error, not an
\* AppError: 'Registration failed. Please try again.'), then createSession for
\* the new user and redirect('/profile/setup') outside the try.  A throw of
\* createSession is returned as 'Registration failed' with the user created.
RegisterCreate(c) ==
    /\ calls[c].pc = "user.create"
    /\ LET arg == calls[c].arg
           failed == [fn |-> "registerAction", arg |-> arg,
                      out |-> [kind |-> "result",
                               error |-> "Registration failed"]]
       IN  IF FindByEmail(arg.email) # {}
           THEN /\ ret' = failed
                /\ UNCHANGED <<users, nextUser, cookie>>
           ELSE /\ nextUser <= MaxUsers
                /\ users' = [users EXCEPT ![nextUser] =
                                NewUser(arg.email, arg.userType)]
                /\ nextUser' = nextUser + 1
                /\ LET r == CreateSessionToken(nextUser, arg.userType, secret,
                                               now, 0)
                   IN  IF r.kind = "token"
                       THEN /\ cookie' = r.tok
                            /\ ret' = [fn |-> "registerAction", arg |-> arg,
                                       out |-> Redirect("/profile/setup")]
                       ELSE /\ ret' = failed
                            /\ UNCHANGED cookie
    /\ calls' = [calls EXCEPT ![c] = Idle]
    /\ UNCHANGED <<secret, now, issued, seekerProfiles, companyProfiles,
                   nextProfile, render>>

\* The account is suspended in the storage (prisma.user.update with
\* isActive: false); no action of the application does it.
Suspend(u) ==
    /\ users[u].exists
    /\ users[u].isActive
    /\ users' = [users EXCEPT ![u].isActive = FALSE]
    /\ ret' = NoCall
    /\ UNCHANGED <<secret, now, cookie, issued, nextUser, seekerProfiles,
                   companyProfiles, nextProfile, calls, render>>

\* Registrations (concurrent ones included), logins, logout, suspension, the
\* passing of time and requests through the data access layer, in any order.
NextAuth ==
    \/ \E e \in Emails, r \in UserTypes, ok \in BOOLEAN : RegisterInvoke(e, r, ok)
    \/ \E c \in Requests : RegisterCreate(c)
    \/ \E e \in Emails, ok \in BOOLEAN, valid \in BOOLEAN :
          LoginAction(e, ok, valid, 0)
    \/ LogoutAction
    \/ \E u \in UserIds : Suspend(u)
    \/ GateTick
    \/ \E fn \in DalFns : Request(fn)

SpecAuth == InitGate /\ [][NextAuth]_vars

\* ------------------------------------------------------------- navigation
MaxHops == 4          \* redirects a browser follows in one navigation

\* The pages of the application, by pathname.
DashboardPath == <<"/", "dashboard">>
ProfilePath == <<"/", "profile">>
ProfileSetupPath == <<"/", "profile", "/", "setup">>
ProfileEditPath == <<"/", "profile", "/", "edit">>
LoginPath == <<"/", "login">>
RegisterPath == <<"/", "register">>

\* The pathname a redirect sends the browser to.
PathOf(url) ==
    CASE url = "/login" -> LoginPath
      [] url = "/dashboard" -> DashboardPath
      [] url = "/profile/setup" -> ProfileSetupPath

\* LoginPage and RegisterPage render their form, whoever asks.
LoginPage == Rendered("/login", 0)
RegisterPage == Rendered("/register", 0)
\* No page is routed at the path.
NotFound == [kind |-> "notFound"]

\* The page routed at the path answers the request.
PageAt(path, c, s, t, us, sp, cp) ==
    CASE path = DashboardPath -> DashboardPage(c, s, t, us)
      [] path = ProfilePath -> ProfilePage(c, s, t, us, sp, cp)
      [] path = ProfileSetupPath -> ProfileSetupPage(c, s, t)
      [] path = ProfileEditPath -> ProfileEditPage(c, s, t, us, sp, cp)
      [] path = LoginPath -> LoginPage
      [] path = RegisterPath -> RegisterPage
      [] OTHER -> NotFound

\* One request: the edge guard first and, when it lets the request through,
\* the page.
Respond(path) ==
    LET guard == Proxy(path, cookie, secret, now)
    IN  IF guard.kind = "redirect" THEN guard
        ELSE PageAt(path, cookie, secret, now, users, seekerProfiles,
                    companyProfiles)

\* The paths a navigation starts at: the six pages, and the paths of up to
\* three chunks, which begin like a route or not and have no page.
NavPaths ==
    {DashboardPath, ProfilePath, ProfileSetupPath, ProfileEditPath, LoginPath,
     RegisterPath}
    \cup {path \in Paths : Len(path) \in 2..3}

\* The browser asks for a path.
NavRequest(path) ==
    /\ ret = NoCall
    /\ ret' = [fn |-> "navigate", path |-> path, hops |-> 0,
               out |-> Respond(path)]
    /\ UNCHANGED <<secret, now, cookie, issued, storeVars, calls, render>>

\* The browser follows the redirect it was answered with.
NavFollow ==
    /\ ret.fn = "navigate"
    /\ ret.out.kind = "redirect"
    /\ ret.hops < MaxHops
    /\ ret' = [fn |-> "navigate", path |-> PathOf(ret.out.to),
               hops |-> ret.hops + 1, out |-> Respond(PathOf(ret.out.to))]
    /\ UNCHANGED <<secret, now, cookie, issued, storeVars, calls, render>>

\* The cookies a browser can hold: none, a malformed one, a token forged
\* under another key, a token the server issued at time 0 for a user id and a
\* role, and that token with one character changed.
NavCookies ==
    LET own == {CreateSessionToken(u, r, "k1", 0, 0).tok :
                   u \in UserIds, r \in UserTypes}
    IN  own \cup Forged(0) \cup {[tok EXCEPT !.pad = 1] : tok \in own}

\* A navigation is followed from any population of users, with and without
\* profiles, any cookie, before and after the issued tokens have expired.
InitNav ==
    /\ secret = "k1"
    /\ now \in {0, MaxTime}
    /\ users \in [UserIds -> {NoUser}
                     \cup {NewUser(e, r) : e \in Emails, r \in UserTypes}
                     \cup {LinkedUser(e, r) : e \in Emails \cap ProfileIds,
                                              r \in UserTypes}]
    /\ \A u \in UserIds : users[u].exists => users[u].email = u
    /\ nextUser = MaxUsers + 1
    /\ seekerProfiles = [p \in ProfileIds |-> ProfileOf(users, "SEEKER", p)]
    /\ companyProfiles = [p \in ProfileIds |-> ProfileOf(users, "COMPANY", p)]
    /\ nextProfile = MaxProfiles + 1
    /\ cookie \in NavCookies
    /\ issued = NoIssue
    /\ ret = NoCall
    /\ calls = [c \in Requests |-> Idle]
    /\ render = NoRender

NextNav ==
    \/ \E path \in NavPaths : NavRequest(path)
    \/ NavFollow

\* A browser follows every redirect it is answered with.
SpecNav == InitNav /\ [][NextNav]_vars /\ WF_vars(NavFollow)

\* ------------------------------------------------------------- codec claims
ExpectedSession(p) ==
    [kind |-> "session", userId |-> p.userId, userType |-> p.userType,
     expiresAt |-> p.expiresAt]

\* The decrypt call just made was given the token exactly as it was issued.
DecryptedIssued ==
    /\ ret.fn = "decrypt"
    /\ issued # NoIssue
    /\ ret.arg = issued.tok

\* The decrypt call just made was given the issued token with one character changed.
DecryptedTampered ==
    /\ ret.fn = "decrypt"
    /\ issued # NoIssue
    /\ ret.arg \in Tampered(issued.tok)

\* a differs from b in the unused low bits of the last signature character only.
PadOnly(a, b) == a.t = "jws" /\ a # b /\ [a EXCEPT !.pad = b.pad] = b

\* Seven days after the start of the second in which the token was signed.
IssuedWindowEnd == (issued.at \div MsPerSec) * MsPerSec + SevenDaysMs

\* The five ways the claim lists in which an input is not a valid token.
NotAValidToken(arg) ==
    \/ arg = NoCookie
    \/ arg = EmptyString
    \/ arg.t = "malformed"
    \/ /\ arg.t = "jws"
       /\ \/ arg.alg # "HS256"
          \/ arg.sig # Hmac(secret, SigningInput(arg))
          \/ now >= arg.exp * MsPerSec

\* C4 (as claimed): with SESSION_SECRET unset no call completes as an ordinary
\* per-request result, neither a silent "no session" nor a redirect.
C4_MissingKeyIsFatal ==
    secret = Unset =>
        ~(ret.fn # "none" /\ ret.out.kind \in {"undefined", "redirect"})

\* C5 (as claimed): a session returned by decrypt or getSession carries a
\* userType of the enumeration {SEEKER, COMPANY}.
C5_RoleInEnumeration ==
    (Verified /\ ret.out.kind = "session") => ret.out.userType \in UserTypes

\* C6 (as claimed): the issued token, verified at any time >= the expiresAt of
\* its payload, yields no session.
C6_NoSessionFromExpiresAt ==
    (DecryptedIssued /\ now >= issued.payload.expiresAt) => ret.out = Undefined

C8_AnyByteRejected == DecryptedTampered => ret.out = Undefined

\* C8 (amended): decrypt of the issued token with one character changed returns
\* undefined whenever the change alters the decoded header, claims or signature;
\* a change confined to the unused bits of the last signature character yields
\* undefined or the session of the untampered token, never any other session.
C8_TamperRejected ==
    DecryptedTampered =>
        IF PadOnly(ret.arg, issued.tok)
        THEN ret.out \in {Undefined, ExpectedSession(issued.payload)}
        ELSE ret.out = Undefined

C8_Witness ==
    /\ DecryptedTampered
    /\ ret.arg.t = "jws"
    /\ ~PadOnly(ret.arg, issued.tok)
    /\ ret.arg.userId # issued.tok.userId
    /\ now < IssuedWindowEnd
    /\ secret # Unset
    /\ ret.out = Undefined

\* C9: for an absent cookie, an empty string, a malformed token, a signature
\* mismatch and an expired token alike, decrypt and getSession return the one
\* value undefined; nothing is thrown and nothing tells the cases apart.
C9_UniformRejection ==
    (Verified /\ NotAValidToken(ret.arg)) => ret.out = Undefined

C9_Witness ==
    /\ ret.fn = "getSession"
    /\ ret.arg.t = "jws"
    /\ ret.arg.alg = "HS256"
    /\ ret.arg.sig = Hmac(secret, SigningInput(ret.arg))
    /\ now >= ret.arg.exp * MsPerSec
    /\ ret.out = Undefined

\* ------------------------------------------------------------- profile claims
\* C1 (as claimed): under any interleaving of the profile services a user's
\* refObjectId, once set, is never cleared or given another value.
C1_RefObjectIdWriteOnce ==
    [][\A u \in UserIds :
          (users[u].exists /\ users[u].refObjectId # Null /\ users'[u].exists)
              => users'[u].refObjectId = users[u].refObjectId]_vars

\* The request's cookie passes verifySession as user u.
GatePassesFor(u) ==
    LET g == VerifySession(cookie, secret, now)
    IN  g.kind = "sessionData" /\ g.userId = u

\* C2 (as claimed): a profile action that has written a profile record for
\* userId runs in a request whose cookie passes verifySession as that user.
C2_MutationBehindGate ==
    /\ \A c \in Requests : calls[c].pc = "link" => GatePassesFor(calls[c].userId)
    /\ (ret.fn \in ProfileOps /\ ret.out.success) => GatePassesFor(ret.userId)

\* ------------------------------------------------------------- gate claims
\* C3: a request answered by verifySession, or by a function or page behind
\* it, whose cookie is absent, empty, malformed, wrongly signed, expired or
\* carries an empty userId ends in redirect('/login'); verifySession returns
\* the token's userId and userType otherwise.
C3_FailClosed ==
    ret.fn \in GateFns =>
        IF NotAValidToken(cookie) \/ cookie.userId = 0
        THEN ret.out = Redirect("/login")
        ELSE ret.fn = "verifySession" =>
                ret.out = SessionData(cookie.userId, cookie.userType)

C3_Witness ==
    /\ ret.fn = "verifySession"
    /\ secret # Unset
    /\ cookie.t = "jws"
    /\ cookie.alg = "HS256"
    /\ cookie.sig # Hmac(secret, SigningInput(cookie))
    /\ cookie.sig.key = secret
    /\ now < cookie.exp * MsPerSec
    /\ ret.out = Redirect("/login")

\* The request's token is valid and names a user the storage does not hold.
SubjectMissing ==
    LET g == VerifySession(cookie, secret, now)
    IN  g.kind = "sessionData" /\ ~users[g.userId].exists

\* C10 (as claimed): with a valid token whose user record is gone, getUser,
\* getUserWithProfile and the pages built on them end in redirect('/login'),
\* as they do without a session.
C10_MissingSubjectRedirects ==
    (/\ ret.fn \in {"getUser", "getUserWithProfile", "DashboardPage",
                    "ProfilePage", "ProfileEditPage"}
     /\ SubjectMissing)
        => ret.out = Redirect("/login")

\* ------------------------------------------------------------- render claims
\* C11 (as claimed): within one request, whatever calls of verifySession,
\* getUser and getUserWithProfile it makes, decrypt has run at most once and
\* prisma.user.findUnique has run at most once.
C11_VerifiedAndQueriedOnce ==
    render.t = "request" => (render.decrypts <= 1 /\ render.lookups <= 1)

\* C17 (as claimed): a user returned by getUserWithProfile has the seeker
\* relation resolved exactly when the user's role is SEEKER and the company
\* relation resolved exactly when it is COMPANY, so exactly one of the two.
C17_RoleAppropriateRelation ==
    (ret.fn = "getUserWithProfile" /\ ret.out.kind = "user") =>
        /\ ret.out.seekerProfile # "notIncluded" <=> ret.out.userType = "SEEKER"
        /\ ret.out.companyProfile # "notIncluded" <=> ret.out.userType = "COMPANY"

\* ------------------------------------------------------------- service claims
\* Request c's service call passes, in this step, from its user lookup to the
\* outcome of its checks.
Checking(c, ops) ==
    /\ calls[c].pc = "find"
    /\ calls[c].op \in ops
    /\ calls'[c] # calls[c]

\* The step answers request c with failure e and writes nothing.
Rejected(c, e) ==
    /\ ret' = Returned(calls[c], Failure(e))
    /\ calls'[c] = Idle
    /\ UNCHANGED storeVars

HasProfile(u) == users[u].exists /\ users[u].refObjectId # Null

\* C12 (as claimed): a creation call of either kind for a user whose
\* refObjectId is set fails with 409 PROFILE_EXISTS and writes nothing.
C12_DuplicateConflicts ==
    [][\A c \in Requests :
          (Checking(c, CreateOps) /\ HasProfile(calls[c].userId))
              => Rejected(c, AppError(409, "PROFILE_EXISTS"))]_vars

\* C12 (amended): a creation call for a user whose refObjectId is set writes
\* nothing and fails: with 409 PROFILE_EXISTS when the call is of the kind of
\* the user's role, with 403 INVALID_USER_TYPE when it is of the other kind.
C12_DuplicateRejected ==
    [][\A c \in Requests :
          (Checking(c, CreateOps) /\ HasProfile(calls[c].userId))
              => IF users[calls[c].userId].userType = RoleOf(calls[c].op)
                 THEN Rejected(c, AppError(409, "PROFILE_EXISTS"))
                 ELSE Rejected(c, AppError(403, "INVALID_USER_TYPE"))]_vars

C12_Witness ==
    /\ ret.fn \in CreateOps
    /\ ret.out = Failure(AppError(409, "PROFILE_EXISTS"))
    /\ HasProfile(ret.userId)
    /\ \E p \in ProfileIds : p # users[ret.userId].refObjectId
                             /\ ~seekerProfiles[p].exists
                             /\ ~companyProfiles[p].exists

\* C13: a creation call of the kind the user's role does not allow, for an
\* existing user, fails with 403 INVALID_USER_TYPE, which is not the failure
\* reported for a missing user, and writes nothing.
C13_RoleMismatchForbidden ==
    [][\A c \in Requests :
          (/\ Checking(c, CreateOps)
           /\ users[calls[c].userId].exists
           /\ users[calls[c].userId].userType # RoleOf(calls[c].op))
              => /\ Rejected(c, AppError(403, "INVALID_USER_TYPE"))
                 /\ ret'.out # Failure(AppError(404, "USER_NOT_FOUND"))
                 /\ ret'.out.status # 404]_vars

C13_Witness ==
    /\ ret.fn = "createCompanyProfile"
    /\ ret.out = Failure(AppError(403, "INVALID_USER_TYPE"))
    /\ users[ret.userId].exists
    /\ users[ret.userId].userType = "SEEKER"
    /\ users[ret.userId].refObjectId = Null

\* C14: an update action with a valid payload for a user without refObjectId
\* fails with 404 PROFILE_NOT_FOUND, whose code is not that of a payload that
\* fails validation (400 VALIDATION_ERROR); in both cases nothing is written.
C14_UpdateBeforeCreate ==
    [][/\ \A c \in Requests :
             (Checking(c, UpdateOps) /\ ~HasProfile(calls[c].userId))
                 => /\ Rejected(c, AppError(404, "PROFILE_NOT_FOUND"))
                    /\ ret'.out.code # ValidationError.code
                    /\ ret'.out.status # ValidationError.status
       /\ (/\ ret'.fn \in UpdateOps
           /\ ret'.out = Failure(ValidationError))
              => (UNCHANGED storeVars /\ UNCHANGED calls)]_vars

C14_Witness ==
    /\ ret.fn = "updateSeekerProfile"
    /\ ret.out = Failure(AppError(404, "PROFILE_NOT_FOUND"))
    /\ users[ret.userId].exists
    /\ users[ret.userId].userType = "SEEKER"
    /\ users[ret.userId].refObjectId = Null

\* Request c's update call completes with success in this step.
Updated(c) ==
    /\ calls[c].pc = "write"
    /\ calls'[c] = Idle
    /\ ret'.out.success

\* Every profile record but p is left as it was.
OthersUnchanged(p) ==
    \A q \in ProfileIds \ {p} :
        /\ seekerProfiles'[q] = seekerProfiles[q]
        /\ companyProfiles'[q] = companyProfiles[q]

HoldsSession(c) == ~NotAValidToken(c) /\ c.userId # 0

\* /dashboard, /profile and the paths below them.
IsOrIsBelow(path, route) == path = route \/ StartsWith(path, route \o <<"/">>)

\* The decision table over a given notion of protected path.
Decision(protected, path, c) ==
    IF protected /\ ~HoldsSession(c) THEN Redirect("/login")
    ELSE IF path \in {<<"/", "login">>, <<"/", "register">>} /\ HoldsSession(c)
         THEN Redirect("/dashboard")
    ELSE NextResponse

\* C16 (as claimed): proxy follows the decision table with the protected paths
\* being /dashboard, /profile and their sub-paths.
C16_DecisionTableSubPaths ==
    ret.fn = "proxy" =>
        ret.out = Decision(\E route \in protectedRoutes :
                                IsOrIsBelow(ret.path, route),
                           ret.path, cookie)

\* C16 (amended): proxy follows the decision table with the protected paths
\* being every path whose string begins with /dashboard or /profile, whatever
\* the users stored.
C16_DecisionTablePrefix ==
    ret.fn = "proxy" =>
        ret.out = Decision(\E route \in protectedRoutes :
                                StartsWith(ret.path, route),
                           ret.path, cookie)

C16_Witness ==
    /\ ret.fn = "proxy"
    /\ ret.path = <<"/", "login">>
    /\ HoldsSession(cookie)
    /\ cookie.pad # 0
    /\ ~users[cookie.userId].exists
    /\ now > 0
    /\ ret.out = Redirect("/dashboard")

\* ------------------------------------------------------------- session store claims
\* C19: updateSession called at time t with a cookie that decrypt accepts
\* leaves in the cookie a token of the same userId and userType whose
\* expiresAt is t + 7 days and whose exp falls in the second 7 days after the
\* call; with any other cookie it leaves the cookie as it was; it never throws.
C19_RefreshKeepsIdentity ==
    ret.fn = "updateSession" =>
        LET old == Decrypt(ret.arg, secret, ret.at)
        IN  /\ ret.out = Undefined
            /\ IF old.kind = "session"
               THEN /\ Decrypt(cookie, secret, ret.at) =
                          [kind |-> "session", userId |-> old.userId,
                           userType |-> old.userType,
                           expiresAt |-> ret.at + SevenDaysMs]
                    /\ cookie.exp * MsPerSec > ret.at + SevenDaysMs - MsPerSec
                    /\ cookie.exp * MsPerSec <= ret.at + MaxSignDelay + SevenDaysMs
               ELSE cookie = ret.arg

C19_Witness ==
    /\ ret.fn = "updateSession"
    /\ issued # NoIssue
    /\ ret.at > issued.at
    /\ ret.arg = issued.tok
    /\ issued.payload.userType = "COMPANY"
    /\ cookie # ret.arg
    /\ cookie.userType = "COMPANY"
    /\ cookie.exp > ret.arg.exp

\* C20: after deleteSession the cookie is absent and nothing was thrown,
\* whether the cookie was there before the call or not.
C20_ClearIsIdempotent ==
    ret.fn = "deleteSession" => (cookie = NoCookie /\ ret.out = Undefined)

C20_Witness ==
    /\ ret.fn = "deleteSession"
    /\ issued # NoIssue
    /\ ret.arg = NoCookie
    /\ cookie = NoCookie

\* ------------------------------------------------------------- lifecycle claims
\* The state of user u when the browser holds cookie c at time t and the
\* storage holds us: 0 NO_SESSION, 1 AUTHENTICATED_NO_PROFILE,
\* 2 AUTHENTICATED_WITH_PROFILE.
RankOf(c, t, us, u) ==
    LET g == VerifySession(c, secret, t)
    IN  IF g.kind # "sessionData" \/ g.userId # u THEN 0
        ELSE IF us[u].exists /\ us[u].refObjectId # Null THEN 2
        ELSE 1

Rank(u) == RankOf(cookie, now, users, u)
RankNext(u) == RankOf(cookie', now', users', u)

C21_CookieAttributes ==
    (ret.fn \in {"createSession", "updateSession"} /\ ret.set # NoSet) =>
        /\ ret.set.name = "session"
        /\ ret.set.httpOnly
        /\ ret.set.sameSite = "lax"
        /\ ret.set.path = "/"
        /\ ret.set.secure = (ret.env = "production")
        /\ ret.set.value.t = "jws"
        /\ ParseDate(ret.set.value.expiresAt) = ret.set.expires
        /\ ret.set.value.exp * MsPerSec > ret.set.expires - MsPerSec
        /\ ret.set.value.exp * MsPerSec <= ret.set.expires + MaxSignDelay
        /\ (ret.fn = "updateSession" => cookie = ret.set.value)

\* A refresh outside production wrote the cookie without the secure flag.
C21_Witness ==
    /\ ret.fn = "updateSession"
    /\ ret.set # NoSet
    /\ ret.env = "development"
    /\ ~ret.set.secure
    /\ ret.set.expires = ret.at + SevenDaysMs

\* ------------------------------------------------------------- authentication claims
\* The user a form's email names, and whether loginUser lets the form in.
UserOf(email) == CHOOSE u \in FindByEmail(email) : TRUE
Admissible(arg) ==
    /\ arg.valid
    /\ arg.passwordOk
    /\ FindByEmail(arg.email) # {}
    /\ users[UserOf(arg.email)].isActive

\* C22: a login with valid credentials of an active user (the signing key
\* being set) ends in a redirect, to /profile/setup when the user's
\* refObjectId is unset and to /dashboard when it is set, never in an error
\* result.
C22_LoginRedirects ==
    (ret.fn = "loginAction" /\ secret # Unset /\ Admissible(ret.arg)) =>
        ret.out = Redirect(IF users[UserOf(ret.arg.email)].refObjectId = Null
                           THEN "/profile/setup" ELSE "/dashboard")

\* C23: a session cookie is only ever written by a registerAction that has
\* just created the user or a loginAction that has just verified the user's
\* credentials, for that user's id and stored userType; so the cookie never
\* names a user that does not exist or a userType other than the stored one.
C23_SessionsForRealUsers ==
    /\ [](cookie.t = "jws" =>
             /\ cookie.userId \in UserIds
             /\ users[cookie.userId].exists
             /\ users[cookie.userId].userType = cookie.userType)
    /\ [][(cookie' # cookie /\ cookie'.t = "jws") =>
             /\ ret'.fn \in {"registerAction", "loginAction"}
             /\ ret'.arg.valid
             /\ cookie'.userId \in UserIds
             /\ users'[cookie'.userId].exists
             /\ users'[cookie'.userId].email = ret'.arg.email
             /\ users'[cookie'.userId].userType = cookie'.userType
             /\ IF ret'.fn = "registerAction"
                THEN /\ ~users[cookie'.userId].exists
                     /\ ret'.arg.userType = cookie'.userType
                ELSE /\ users[cookie'.userId] = users'[cookie'.userId]
                     /\ users[cookie'.userId].isActive
                     /\ ret'.arg.passwordOk]_vars

\* A login has replaced the session of one user by that of the other, a
\* COMPANY user.
C23_Witness ==
    /\ ret.fn = "loginAction"
    /\ cookie.t = "jws"
    /\ cookie.userId = 2
    /\ cookie.userType = "COMPANY"
    /\ users[2].email = ret.arg.email
    /\ users[1].exists
    /\ users[1].userType = "SEEKER"

\* The failing paths of the two actions, told from the form and the storage
\* as the call finds it.
FailingPath(fn, arg) ==
    \/ ~arg.valid
    \/ fn = "registerAction" /\ FindByEmail(arg.email) # {}
    \/ fn = "loginAction" /\ ~Admissible(arg)

\* C24: on every failing path of registerAction and loginAction the action
\* returns a result with a defined error and no redirect, the session cookie
\* is neither created nor changed, and a validation failure creates no user.
C24_FailedAuthLeavesSession ==
    [][(/\ ret' # ret
        /\ ret'.fn \in {"registerAction", "loginAction"}
        /\ FailingPath(ret'.fn, ret'.arg)) =>
           /\ ret'.out.kind = "result"
           /\ ret'.out.error # "undefined"
           /\ cookie' = cookie
           /\ (~ret'.arg.valid => users' = users)]_vars

\* C25: a registration with an email already registered returns the conflict
\* message 'Email already registered' in the action's error and creates no
\* second user, and no two user records ever share an email.
C25_OneUserPerEmail ==
    /\ \A e \in Emails : Cardinality(FindByEmail(e)) <= 1
    /\ (/\ ret.fn = "registerAction"
        /\ ret.arg.valid
        /\ secret # Unset
        /\ ret.out.kind = "result") =>
           ret.out.error = "Email already registered"

\* The request paths the edge guard holds protected: a protected route, alone
\* or followed by one more chunk.
ProtectedPaths ==
    {path \in Paths : /\ Len(path) <= 3
                      /\ \E route \in protectedRoutes : StartsWith(path, route)}

\* With the cookie as it is, the edge guard redirects every request for a
\* protected path to /login, and so does verifySession.
SignedOut ==
    /\ VerifySession(cookie, secret, now) = Redirect("/login")
    /\ \A path \in ProtectedPaths :
          Proxy(path, cookie, secret, now) = Redirect("/login")

AdmittedUser ==
    IF ret.out.kind = "sessionData" THEN ret.out.userId ELSE ret.out.id

\* C30: verifySession, getUser and getUserWithProfile admit no request on
\* behalf of a user whose isActive is false, also when the account was
\* suspended after its session was issued.
C30_SuspendedNotAdmitted ==
    (ret.fn \in DalFns /\ ret.out.kind \in {"sessionData", "user"}) =>
        (users[AdmittedUser].exists => users[AdmittedUser].isActive)

\* The part of C30 about loginAction: a login for a suspended account is
\* refused and writes no session.
C30_SuspendedCannotLogin ==
    [][(/\ ret' # ret
        /\ ret'.fn = "loginAction"
        /\ \E u \in FindByEmail(ret'.arg.email) : ~users[u].isActive) =>
           /\ ret'.out.kind = "result"
           /\ cookie' = cookie]_vars

\* ------------------------------------------------------------- profile integrity claims
\* The step answers update request c, made for a user who has a profile of
\* the other kind than the one the request names.
AnswersCrossKindUpdate(c) ==
    /\ calls[c].pc \in {"find", "write"}
    /\ calls[c].op \in UpdateOps
    /\ calls'[c] = Idle
    /\ HasProfile(calls[c].userId)
    /\ users[calls[c].userId].userType # RoleOf(calls[c].op)

\* C27: an update of the profile kind that does not match the role of a user
\* who has a profile fails with an authorization error, one that is neither
\* not-found (404) nor validation (400) nor internal (500), and changes no
\* profile record of either kind.
C27_UpdateRoleMismatchForbidden ==
    [][\A c \in Requests :
          AnswersCrossKindUpdate(c) =>
              /\ ret'.out.success = FALSE
              /\ ret'.out.status \notin {400, 404, 500}
              /\ UNCHANGED <<seekerProfiles, companyProfiles>>]_vars

\* The users whose refObjectId names profile p.
Owners(p) == {u \in UserIds : users[u].exists /\ users[u].refObjectId = p}

\* Profile p of the collection of role is referenced by exactly one user, of
\* that role.
OwnedByOne(p, role) ==
    /\ Cardinality(Owners(p)) = 1
    /\ \A u \in Owners(p) : users[u].userType = role

\* C28: whenever no creation call is between its two storage writes, every
\* SeekerProfile and CompanyProfile record is referenced by the refObjectId
\* of exactly one user, and that user's userType matches the profile's kind.
C28_NoOrphanProfiles ==
    (\A c \in Requests : calls[c] = Idle) =>
        \A p \in ProfileIds :
            /\ seekerProfiles[p].exists => OwnedByOne(p, "SEEKER")
            /\ companyProfiles[p].exists => OwnedByOne(p, "COMPANY")

\* ------------------------------------------------------------- navigation claims
\* C29: for every cookie (absent, invalid, expired, valid), every user state
\* (missing, without profile, with profile) and every requested path, the
\* chain of redirects of the edge guard, verifySession and the pages reaches
\* a response that is not a redirect, after two redirects at most: there is
\* no redirect cycle.
C29_NavigationTerminates ==
    /\ [](ret.fn = "navigate" => ret.hops <= 2)
    /\ (ret.fn = "navigate") ~> (ret.fn = "navigate" /\ ret.out.kind # "redirect")

\* The chain /profile/edit -> /login -> /dashboard for a valid token of a
\* user that is gone has ended in two redirects, on the dashboard's empty page.
C29_Witness ==
    /\ ret.fn = "navigate"
    /\ ret.hops = 2
    /\ ret.path = DashboardPath
    /\ ret.out = Null_
    /\ VerifySession(cookie, secret, now).kind = "sessionData"
    /\ ~users[VerifySession(cookie, secret, now).userId].exists

====
